---- MODULE Spec2Model ----
(***************************************************************************)
(* Model of the Arduino gateway sketch sketch_piV3_apr18b.ino: the MQTT    *)
(* command handlers, the Pi serial-line handler and the power sequencing.  *)
(*                                                                         *)
(* Texts (Arduino String values) are sequences of one-character strings,   *)
(* except that a string literal of the sketch is kept as one element.      *)
(* Every handler is an operator from the sketch's globals (a record) to    *)
(* the globals after the handler; the effects a handler has on the outside *)
(* (status publishes, Serial1 writes, pin writes, delays) are appended in  *)
(* program order to the field "log".                                       *)
(***************************************************************************)
EXTENDS Integers, Sequences, FiniteSets, TLC

VARIABLES piPowered, piReady, pendingCommand, hasPendingCommand, pin12,
          connected, log, ev, pre, recv,
          textBuffer, textBufferIndex, run,
          waiting, mqttInbox, serialRx, late

framer == <<textBuffer, textBufferIndex, run>>

transport == <<waiting, mqttInbox, serialRx, late>>

vars == <<piPowered, piReady, pendingCommand, hasPendingCommand, pin12,
          connected, log, ev, pre, recv, framer, transport>>

(***************************************************************************)
(* Bounds of the model.                                                    *)
(***************************************************************************)
MaxCode == 105

MaxDuration == 1

MaxRun == 200

MaxInbox == 2

MaxRx == 2

\* sizeof(textBuffer)
BufferSize == 128

(***************************************************************************)
(* Integer <-> text conversions: String(int) and String::toInt (atol).     *)
(***************************************************************************)
DigitChar == <<"0", "1", "2", "3", "4", "5", "6", "7", "8", "9">>

IsDigit(c) == \E i \in 1..10 : DigitChar[i] = c

DigitVal(c) == (CHOOSE i \in 1..10 : DigitChar[i] = c) - 1

IsSpace(c) == c \in {" ", "\n", "\r", "\t"}

RECURSIVE Digits(_)
Digits(n) ==
  IF n < 10 THEN <<DigitChar[n + 1]>>
  ELSE Digits(n \div 10) \o <<DigitChar[(n % 10) + 1]>>

StringOfInt(n) == IF n < 0 THEN <<"-">> \o Digits(0 - n) ELSE Digits(n)

RECURSIVE SkipSpace(_, _)
SkipSpace(text, i) ==
  IF i <= Len(text) /\ IsSpace(text[i]) THEN SkipSpace(text, i + 1) ELSE i

RECURSIVE atolDigits(_, _, _)
atolDigits(text, i, acc) ==
  IF i <= Len(text) /\ IsDigit(text[i])
  THEN atolDigits(text, i + 1, acc * 10 + DigitVal(text[i]))
  ELSE acc

toInt(text) ==
  LET i0 == SkipSpace(text, 1)
      neg == i0 <= Len(text) /\ text[i0] = "-"
      i1 == IF i0 <= Len(text) /\ text[i0] \in {"-", "+"} THEN i0 + 1 ELSE i0
      v == atolDigits(text, i1, 0)
  IN IF neg THEN 0 - v ELSE v

(***************************************************************************)
(* String::trim, String::startsWith, String::indexOf(...) >= 0             *)
(***************************************************************************)
RECURSIVE trimLeft(_)
trimLeft(t) == IF t # <<>> /\ IsSpace(Head(t)) THEN trimLeft(Tail(t)) ELSE t

RECURSIVE trimRight(_)
trimRight(t) ==
  IF t # <<>> /\ IsSpace(t[Len(t)]) THEN trimRight(SubSeq(t, 1, Len(t) - 1))
  ELSE t

trim(t) == trimRight(trimLeft(t))

startsWith(t, prefix) == Len(t) >= 1 /\ t[1] = prefix

contains(t, part) == \E i \in 1..Len(t) : t[i] = part

(***************************************************************************)
(* The sketch's globals and the effects of a handler.                      *)
(***************************************************************************)
Globals ==
  [piPowered |-> piPowered, piReady |-> piReady,
   pendingCommand |-> pendingCommand, hasPendingCommand |-> hasPendingCommand,
   pin12 |-> pin12, connected |-> connected, log |-> <<>>]

Eff(s, op, arg) ==
  [op |-> op, arg |-> arg, piReady |-> s.piReady, piPowered |-> s.piPowered]

Emit(s, op, arg) == [s EXCEPT !.log = Append(@, Eff(s, op, arg))]

digitalWrite12(s, level) ==
  Emit([s EXCEPT !.pin12 = level], "digitalWrite", <<level>>)

delay(s, ms) == Emit(s, "delay", <<ms>>)

publishStatus(s, message) ==
  IF s.connected THEN Emit(s, "publish", message) ELSE s

sendToPi_ClearsReady(s, command) ==
  IF ~s.piReady
  THEN LET s1 == publishStatus(s, <<"Command failed, Pi not ready">>)
       IN IF s1.piPowered
          THEN publishStatus([s1 EXCEPT !.pendingCommand = command,
                                        !.hasPendingCommand = TRUE],
                             <<"Command queued: ">> \o command)
          ELSE s1
  ELSE LET cmd == command \o <<"\n">>
           s1 == Emit([s EXCEPT !.piReady = FALSE], "Serial1.print", cmd)
       IN publishStatus(s1, <<"Command sent to Pi: ">> \o cmd)

sendToPi(s, command) ==
  IF ~s.piReady
  THEN LET s1 == publishStatus(s, <<"Command failed, Pi not ready">>)
       IN IF s1.piPowered
          THEN publishStatus([s1 EXCEPT !.pendingCommand = command,
                                        !.hasPendingCommand = TRUE],
                             <<"Command queued: ">> \o command)
          ELSE s1
  ELSE LET cmd == command \o <<"\n">>
           s1 == Emit(s, "Serial1.print", cmd)
       IN publishStatus(s1, <<"Command sent to Pi: ">> \o cmd)

reply101_OnlyWhenReady(s) ==
  IF s.piReady THEN publishStatus(s, <<"301">>) ELSE s

reply101(s) == publishStatus(s, <<"301">>)

turnonpi_NoPin(s) ==
  IF ~s.piPowered
  THEN LET s2 == publishStatus(s, <<"Pi Booting">>)
       IN [s2 EXCEPT !.piPowered = TRUE, !.piReady = FALSE]
  ELSE publishStatus(s, <<"Pi is already powered on">>)

turnonpi(s) ==
  IF ~s.piPowered
  THEN LET s1 == digitalWrite12(s, "LOW")
           s2 == publishStatus(s1, <<"Pi Booting">>)
       IN [s2 EXCEPT !.piPowered = TRUE, !.piReady = FALSE]
  ELSE publishStatus(s, <<"Pi is already powered on">>)

statuspi(s) == sendToPi(s, <<"1", "0", "3">>)

shutdownpi_KeepsReady(s) ==
  LET s1 == sendToPi(s, <<"1", "0", "4">>)
      s3 == publishStatus(s1, <<"Pi shutting down, communication disabled">>)
      s4 == delay(s3, 25000)
      s5 == digitalWrite12(s4, "HIGH")
      s6 == [s5 EXCEPT !.piPowered = FALSE]
  IN publishStatus(s6, <<"Pi power off">>)

\* shutdownpi up to and including its delay(25000)
shutdownpiSettle(s) ==
  LET s1 == sendToPi(s, <<"1", "0", "4">>)
      s2 == [s1 EXCEPT !.piReady = FALSE]
      s3 == publishStatus(s2, <<"Pi shutting down, communication disabled">>)
  IN delay(s3, 25000)

shutdownpiPowerOff_NoPin(s) ==
  publishStatus([s EXCEPT !.piPowered = FALSE], <<"Pi power off">>)

\* shutdownpi after its delay
shutdownpiPowerOff(s) ==
  LET s5 == digitalWrite12(s, "HIGH")
      s6 == [s5 EXCEPT !.piPowered = FALSE]
  IN publishStatus(s6, <<"Pi power off">>)

shutdownpi(s) == shutdownpiPowerOff(shutdownpiSettle(s))

(***************************************************************************)
(* processTextMessage: one complete line from the Pi.                      *)
(***************************************************************************)
classify(messageStr) ==
  IF contains(messageStr, "Pi ready") \/ contains(messageStr, "READY")
  THEN "Ready"
  ELSE IF startsWith(messageStr, "103_ACK") THEN "Ack103"
  ELSE IF startsWith(messageStr, "104_ACK") THEN "Ack104"
  ELSE IF \/ startsWith(messageStr, "105_NOAA15")
          \/ startsWith(messageStr, "106_NOAA18")
          \/ startsWith(messageStr, "107_NOAA19")
          \/ startsWith(messageStr, "108_ISS") THEN "RecordingAck"
  ELSE IF startsWith(messageStr, "UPLOAD_SUCCESS") THEN "UploadResult"
  ELSE IF startsWith(messageStr, "SHUTDOWN_INITIATED") THEN "ShutdownInitiated"
  ELSE IF startsWith(messageStr, "UNKNOWN_CODE") THEN "UnknownCodeReported"
  ELSE "Unclassified"

onPiReady_KeepsSlot(s) ==
  LET s1 == [s EXCEPT !.piReady = TRUE, !.piPowered = TRUE]
      s2 == publishStatus(s1, <<"Pi is ready for communication">>)
  IN IF s2.hasPendingCommand
     THEN sendToPi(s2, s2.pendingCommand)
     ELSE s2

onPiReady_KeepsFlag(s) ==
  LET s1 == [s EXCEPT !.piReady = TRUE, !.piPowered = TRUE]
      s2 == publishStatus(s1, <<"Pi is ready for communication">>)
  IN IF s2.hasPendingCommand
     THEN [sendToPi(s2, s2.pendingCommand) EXCEPT !.pendingCommand = <<>>]
     ELSE s2

onPiReady(s) ==
  LET s1 == [s EXCEPT !.piReady = TRUE, !.piPowered = TRUE]
      s2 == publishStatus(s1, <<"Pi is ready for communication">>)
  IN IF s2.hasPendingCommand
     THEN [sendToPi(s2, s2.pendingCommand)
             EXCEPT !.hasPendingCommand = FALSE, !.pendingCommand = <<>>]
     ELSE s2

on104Ack(s, messageStr) ==
  LET s1 == publishStatus(s, <<"Pi shutdown acknowledged: ">> \o messageStr)
  IN [s1 EXCEPT !.piReady = FALSE]

onShutdownInitiated_NoPowerOff(s, messageStr) ==
  LET s1 == publishStatus(s, <<"Pi shutting down: ">> \o messageStr)
      s2 == [s1 EXCEPT !.piReady = FALSE]
  IN delay(s2, 95000)

\* the SHUTDOWN_INITIATED branch up to and including its delay(95000)
onShutdownInitiatedSettle(s, messageStr) ==
  LET s1 == publishStatus(s, <<"Pi shutting down: ">> \o messageStr)
      s2 == [s1 EXCEPT !.piReady = FALSE]
  IN delay(s2, 95000)

\* the SHUTDOWN_INITIATED branch after its delay
onShutdownInitiatedPowerOff(s) ==
  [digitalWrite12(s, "HIGH") EXCEPT !.piPowered = FALSE]

onShutdownInitiated(s, messageStr) ==
  onShutdownInitiatedPowerOff(onShutdownInitiatedSettle(s, messageStr))

processTextMessage_103ClearsReady(s, message) ==
  LET messageStr == trim(message)
      event == classify(messageStr)
  IN CASE event = "Ready" -> onPiReady(s)
       [] event = "Ack103" ->
            on104Ack(s, messageStr)
       [] event = "Ack104" -> on104Ack(s, messageStr)
       [] event = "RecordingAck" ->
            publishStatus(s, <<"Recording started: ">> \o messageStr)
       [] event = "UploadResult" ->
            publishStatus(s, <<"File uploaded to Google Drive: ">> \o messageStr)
       [] event = "ShutdownInitiated" -> onShutdownInitiated(s, messageStr)
       [] event = "UnknownCodeReported" ->
            publishStatus(s, <<"Command not recognized by Pi: ">> \o messageStr)
       [] OTHER -> publishStatus(s, <<"Pi message: ">> \o messageStr)

processTextMessage(s, message) ==
  LET messageStr == trim(message)
      event == classify(messageStr)
  IN CASE event = "Ready" -> onPiReady(s)
       [] event = "Ack103" ->
            publishStatus(s, <<"Pi status received: ">> \o messageStr)
       [] event = "Ack104" -> on104Ack(s, messageStr)
       [] event = "RecordingAck" ->
            publishStatus(s, <<"Recording started: ">> \o messageStr)
       [] event = "UploadResult" ->
            publishStatus(s, <<"File uploaded to Google Drive: ">> \o messageStr)
       [] event = "ShutdownInitiated" -> onShutdownInitiated(s, messageStr)
       [] event = "UnknownCodeReported" ->
            publishStatus(s, <<"Command not recognized by Pi: ">> \o messageStr)
       [] OTHER -> publishStatus(s, <<"Pi message: ">> \o messageStr)

(***************************************************************************)
(* onMqttMessage and processJsonMessage: one message from the broker.      *)
(* A message is either a text without a brace pair,                        *)
(*   [fmt |-> "legacy", text |-> ...],                                     *)
(* or a text with a brace pair, given by what deserializeJson makes of it: *)
(*   [fmt |-> "json", ok |-> parsed, command |-> doc["command"] or "NULL", *)
(*    code |-> doc["code"], duration |-> doc["duration_estimate"]].        *)
(***************************************************************************)
piCommandOf(code, duration) ==
  StringOfInt(code) \o <<":">> \o StringOfInt(duration)

legacyQueue_KeepsFirst(s, incoming) ==
  LET s1 == IF s.hasPendingCommand THEN s
            ELSE [s EXCEPT !.pendingCommand = incoming,
                           !.hasPendingCommand = TRUE]
  IN IF ~s1.piPowered
     THEN publishStatus(turnonpi(s1),
                        <<"Pi booting, command ">> \o incoming \o <<" queued">>)
     ELSE publishStatus(s1,
                        <<"Pi not ready, command ">> \o incoming \o <<" queued">>)

legacyQueue(s, incoming) ==
  LET s1 == [s EXCEPT !.pendingCommand = incoming, !.hasPendingCommand = TRUE]
  IN IF ~s1.piPowered
     THEN publishStatus(turnonpi(s1),
                        <<"Pi booting, command ">> \o incoming \o <<" queued">>)
     ELSE publishStatus(s1,
                        <<"Pi not ready, command ">> \o incoming \o <<" queued">>)

jsonQueue_NoPowerOn(s, piCommand) ==
  LET s1 == [s EXCEPT !.pendingCommand = piCommand, !.hasPendingCommand = TRUE]
  IN publishStatus(s1,
                   <<"Pi not ready, command ">> \o piCommand \o <<" queued">>)

jsonQueue(s, piCommand) ==
  LET s1 == [s EXCEPT !.pendingCommand = piCommand, !.hasPendingCommand = TRUE]
  IN IF ~s1.piPowered
     THEN publishStatus(turnonpi(s1),
                        <<"Pi booting, command ">> \o piCommand \o <<" queued">>)
     ELSE publishStatus(s1,
                        <<"Pi not ready, command ">> \o piCommand \o <<" queued">>)

\* strcmp(command, "power_on") == 0; with command == NULL the read is
\* undefined and the outcome is the caller's choice nullCmp.
strcmpPowerOn(command, nullCmp) ==
  IF command = "NULL" THEN nullCmp ELSE command = "power_on"

processJsonMessage(s, m, nullCmp) ==
  IF ~m.ok THEN publishStatus(s, <<"Error: JSON parsing failed">>)
  ELSE IF m.code <= 0
  THEN publishStatus(s, <<"Error: Invalid code in JSON message">>)
  ELSE
    LET piCommand == piCommandOf(m.code, m.duration)
        s1 == publishStatus(s, <<"Command ">> \o StringOfInt(m.code)
                                 \o <<" with duration: ">>
                                 \o StringOfInt(m.duration) \o <<" seconds">>)
    IN IF m.code = 101 THEN reply101(s1)
       ELSE IF m.code = 102
       THEN LET s2 == turnonpi(s1)
            IN IF strcmpPowerOn(m.command, nullCmp) /\ m.code # 102
               THEN publishStatus(
                      [s2 EXCEPT !.pendingCommand = piCommand,
                                 !.hasPendingCommand = TRUE],
                      <<"Pi booting, command ">> \o piCommand \o <<" queued">>)
               ELSE s2
       ELSE IF s1.piReady THEN sendToPi(s1, piCommand)
       ELSE jsonQueue(s1, piCommand)

onMqttMessage(s, m, nullCmp) ==
  IF m.fmt = "json" THEN processJsonMessage(s, m, nullCmp)
  ELSE
    LET incoming == m.text
        code == toInt(incoming)
        s1 == IF code = 101 THEN reply101(s) ELSE s
        s2 == IF code = 102 THEN turnonpi(s1) ELSE s1
    IN IF s2.piReady
       THEN IF code = 103 THEN statuspi(s2)
            ELSE IF code = 104 THEN shutdownpi(s2)
            ELSE IF code > 0 THEN sendToPi(s2, incoming)
            ELSE s2
       ELSE IF code > 0 /\ code # 101 /\ code # 102
            THEN legacyQueue(s2, incoming)
            ELSE s2

(***************************************************************************)
(* Inputs.                                                                 *)
(***************************************************************************)
LegacyTexts ==
  {StringOfInt(c) : c \in 101..MaxCode}
    \cup { <<"0">>, <<"-", "5">>, <<"a", "b", "c">>, <<" ", "1", "0", "5", "x">>,
           <<"1", "0", "5", ".", "5">> }

JsonMessages ==
  [fmt : {"json"}, ok : {TRUE}, command : {"NULL", "power_on"},
   code : {0} \cup (101..MaxCode), duration : 0..MaxDuration]
    \cup { [fmt |-> "json", ok |-> FALSE, command |-> "NULL",
            code |-> 0, duration |-> 0] }

BusMessages == [fmt : {"legacy"}, text : LegacyTexts] \cup JsonMessages

PiLines ==
  { <<"Pi ready", "\n">>, <<"boot: ", "READY", "\r">>,
    <<"103_ACK", " up", "\n">>, <<"104_ACK", "\n">>,
    <<"104_ACK", " ", "READY", "\n">>, <<"105_NOAA15", " started", "\n">>,
    <<"UPLOAD_SUCCESS", "\n">>, <<"SHUTDOWN_INITIATED", "\n">>,
    <<"UNKNOWN_CODE", "\n">>, <<"ready", "\n">>, <<"\n">> }

(***************************************************************************)
(* State machine.  ev is the event the last handler was run for, pre the   *)
(* globals when it started, log its effects; recv lists the commands       *)
(* (at most the last two) that arrived while the Pi was not ready, since   *)
(* the last ready line that was handled before ev.                         *)
(***************************************************************************)
Core(s) ==
  [piPowered |-> s.piPowered, piReady |-> s.piReady,
   pendingCommand |-> s.pendingCommand,
   hasPendingCommand |-> s.hasPendingCommand, pin12 |-> s.pin12]

CodeOf(m) ==
  IF m.fmt = "json" THEN (IF m.ok THEN m.code ELSE 0) ELSE toInt(m.text)

TextOf(m) ==
  IF m.fmt = "json" THEN piCommandOf(m.code, m.duration) ELSE m.text

StateOf(c) ==
  IF c.piReady /\ c.piPowered THEN "READY"
  ELSE IF c.piPowered THEN "BOOTING"
  ELSE IF ~c.piReady THEN "OFF" ELSE "INVALID"

Queueable(m) == CodeOf(m) > 0 /\ CodeOf(m) \notin {101, 102}

LastTwo(q) == IF Len(q) > 2 THEN SubSeq(q, Len(q) - 1, Len(q)) ELSE q

IsReadyLine(e) == e.kind = "line" /\ classify(trim(e.msg)) = "Ready"

Received(e) ==
  LET base == IF IsReadyLine(ev) THEN <<>> ELSE recv
  IN IF e.kind = "bus" /\ Queueable(e.msg) /\ ~piReady
     THEN LastTwo(Append(base, [text |-> TextOf(e.msg),
                                from |-> StateOf(Globals)]))
     ELSE base

Handled(s, e) ==
  /\ piPowered' = s.piPowered
  /\ piReady' = s.piReady
  /\ pendingCommand' = s.pendingCommand
  /\ hasPendingCommand' = s.hasPendingCommand
  /\ pin12' = s.pin12
  /\ connected' = s.connected
  /\ log' = s.log
  /\ ev' = e
  /\ pre' = Core(Globals)
  /\ recv' = Received(e)

Init ==
  /\ piPowered = FALSE
  /\ piReady = FALSE
  /\ pendingCommand = <<>>
  /\ hasPendingCommand = FALSE
  /\ pin12 = "HIGH"
  /\ connected = FALSE
  /\ log = <<>>
  /\ ev = [kind |-> "setup", msg |-> <<>>]
  /\ pre = [piPowered |-> FALSE, piReady |-> FALSE, pendingCommand |-> <<>>,
            hasPendingCommand |-> FALSE, pin12 |-> "HIGH"]
  /\ recv = <<>>
  /\ textBuffer = <<>>
  /\ textBufferIndex = 0
  /\ run = 0
  /\ waiting = "none"
  /\ mqttInbox = <<>>
  /\ serialRx = <<>>
  /\ late = 0

\* loop(): the broker session is down and connectToBroker succeeds
ConnectToBroker ==
  /\ ~connected
  /\ Handled(publishStatus([Globals EXCEPT !.connected = TRUE],
                           <<"Arduino connected to MQTT">>),
             [kind |-> "connect", msg |-> <<>>])
  /\ UNCHANGED <<framer, transport>>

\* the broker session is lost
Disconnect ==
  /\ connected
  /\ Handled([Globals EXCEPT !.connected = FALSE],
             [kind |-> "disconnect", msg |-> <<>>])
  /\ UNCHANGED <<framer, transport>>

\* loop(): mqttClient.poll() delivers one message to onMqttMessage
PollMqtt ==
  /\ connected
  /\ \E m \in BusMessages, nullCmp \in BOOLEAN :
       Handled(onMqttMessage(Globals, m, nullCmp), [kind |-> "bus", msg |-> m])
  /\ UNCHANGED <<framer, transport>>

\* loop(): checkPiMessages() reads a whole line of less than BufferSize
\* bytes into the empty buffer, processes it and resets the buffer
CheckPiMessages ==
  /\ textBufferIndex = 0
  /\ \E line \in PiLines :
       Handled(processTextMessage(Globals, line),
               [kind |-> "line", msg |-> line])
  /\ UNCHANGED <<framer, transport>>

Next == ConnectToBroker \/ Disconnect \/ PollMqtt \/ CheckPiMessages

Spec == Init /\ [][Next]_vars

(***************************************************************************)
(* The sketch subscribes to the topic it publishes on (connectToBroker),   *)
(* so the broker delivers each status report back to onMqttMessage.        *)
(* SpellOut gives the characters of a published text: of the literals the  *)
(* sketch publishes only "301" begins with a digit, every other literal is *)
(* a prefix that String::toInt stops at.  A report with a brace pair       *)
(* starts with such a prefix and is not a JSON document.                   *)
(***************************************************************************)
Spell(part) == IF part = "301" THEN <<"3", "0", "1">> ELSE <<part>>

RECURSIVE SpellOut(_)
SpellOut(message) ==
  IF message = <<>> THEN <<>>
  ELSE Spell(Head(message)) \o SpellOut(Tail(message))

EchoOf(message) ==
  LET incoming == SpellOut(message)
  IN IF contains(incoming, "{") /\ contains(incoming, "}")
     THEN [fmt |-> "json", ok |-> FALSE, command |-> "NULL",
           code |-> 0, duration |-> 0]
     ELSE [fmt |-> "legacy", text |-> incoming]

\* loop(): mqttClient.poll() delivers one of the last handler's own reports
EchoStatus ==
  /\ connected
  /\ \E i \in 1..Len(log), nullCmp \in BOOLEAN :
       /\ log[i].op = "publish"
       /\ Handled(onMqttMessage(Globals, EchoOf(log[i].arg), nullCmp),
                  [kind |-> "echo", msg |-> EchoOf(log[i].arg)])
  /\ UNCHANGED <<framer, transport>>

NextEcho == Next \/ EchoStatus

SpecEcho == Init /\ [][NextEcho]_vars

(***************************************************************************)
(* checkPiMessages byte by byte.  A byte is its character code; the buffer *)
(* is the sequence of the bytes stored so far (textBuffer[0 ..             *)
(* textBufferIndex - 1], the rest is zero).  One step is one pass of the   *)
(* while loop; f.lines lists the texts the pass handed to                  *)
(* processTextMessage.  run counts the printable bytes fed since the       *)
(* buffer was empty at the start or after a terminator.                    *)
(***************************************************************************)
Bytes == {9, 10, 13, 120}

IsTerminator(inChar) == inChar = 10 \/ inChar = 13

IsAccepted(inChar) == (inChar >= 32 /\ inChar <= 126) \/ IsTerminator(inChar)

CharOf(inChar) ==
  CASE inChar = 10 -> "\n"
    [] inChar = 13 -> "\r"
    [] inChar = 9 -> "\t"
    [] inChar = 120 -> "x"

StringOf(buffer) == [i \in 1..Len(buffer) |-> CharOf(buffer[i])]

Framer ==
  [s |-> Globals, textBuffer |-> textBuffer,
   textBufferIndex |-> textBufferIndex, lines |-> <<>>]

checkPiMessagesByte_OffByOne(f, inChar) ==
  IF ~IsAccepted(inChar) THEN f
  ELSE IF f.textBufferIndex < BufferSize
  THEN LET stored == [f EXCEPT !.textBuffer = Append(@, inChar),
                               !.textBufferIndex = @ + 1]
       IN IF IsTerminator(inChar)
          THEN [s |-> processTextMessage(f.s, StringOf(stored.textBuffer)),
                textBuffer |-> <<>>, textBufferIndex |-> 0,
                lines |-> Append(f.lines, StringOf(stored.textBuffer))]
          ELSE stored
  ELSE [f EXCEPT !.s = Emit(@, "Serial.println",
                            <<"Text buffer overflow, resetting">>),
                 !.textBuffer = <<>>, !.textBufferIndex = 0]

checkPiMessagesByte(f, inChar) ==
  IF ~IsAccepted(inChar) THEN f
  ELSE IF f.textBufferIndex < BufferSize - 1
  THEN LET stored == [f EXCEPT !.textBuffer = Append(@, inChar),
                               !.textBufferIndex = @ + 1]
       IN IF IsTerminator(inChar)
          THEN [s |-> processTextMessage(f.s, StringOf(stored.textBuffer)),
                textBuffer |-> <<>>, textBufferIndex |-> 0,
                lines |-> Append(f.lines, StringOf(stored.textBuffer))]
          ELSE stored
  ELSE [f EXCEPT !.s = Emit(@, "Serial.println",
                            <<"Text buffer overflow, resetting">>),
                 !.textBuffer = <<>>, !.textBufferIndex = 0]

\* loop(): checkPiMessages() reads one byte from Serial1
FeedByte ==
  \E inChar \in Bytes :
    /\ (IsAccepted(inChar) /\ ~IsTerminator(inChar)) => run < MaxRun
    /\ LET f == checkPiMessagesByte(Framer, inChar)
       IN /\ Handled(f.s, [kind |-> "byte", msg |-> <<inChar>>,
                           at |-> textBufferIndex, lines |-> f.lines])
          /\ textBuffer' = f.textBuffer
          /\ textBufferIndex' = f.textBufferIndex
    /\ run' = IF IsTerminator(inChar) THEN 0
              ELSE IF IsAccepted(inChar) THEN run + 1 ELSE run
    /\ UNCHANGED transport

NextFramer == ConnectToBroker \/ Disconnect \/ FeedByte

SpecFramer == Init /\ [][NextFramer]_vars

(***************************************************************************)
(* The settle waits.  delay() blocks loop(): while waiting is not "none"   *)
(* neither mqttClient.poll() nor checkPiMessages() runs, and what arrives  *)
(* is held by the transports (mqttInbox, serialRx; a message that finds    *)
(* its transport full is dropped).  A handler that reaches a delay stops   *)
(* there (WaitBegins) and EndWait runs the rest of it.  late counts the    *)
(* messages that arrived during the current or the last wait.              *)
(***************************************************************************)
WaitBusMessages ==
  { [fmt |-> "legacy", text |-> <<"1", "0", "2">>],
    [fmt |-> "legacy", text |-> <<"1", "0", "4">>],
    [fmt |-> "json", ok |-> TRUE, command |-> "NULL", code |-> 105,
     duration |-> 0] }

WaitPiLines == { <<"Pi ready", "\n">>, <<"SHUTDOWN_INITIATED", "\n">> }

callsShutdownpi(s, m) ==
  m.fmt = "legacy" /\ s.piReady /\ toInt(m.text) = 104

Arrived == IF waiting = "none" THEN late ELSE late + 1

BusArrive ==
  /\ connected
  /\ Len(mqttInbox) < MaxInbox
  /\ \E m \in WaitBusMessages : mqttInbox' = Append(mqttInbox, m)
  /\ late' = Arrived
  /\ UNCHANGED <<piPowered, piReady, pendingCommand, hasPendingCommand, pin12,
                 connected, log, ev, pre, recv, framer, waiting, serialRx>>

LineArrive ==
  /\ Len(serialRx) < MaxRx
  /\ \E line \in WaitPiLines : serialRx' = Append(serialRx, line)
  /\ late' = Arrived
  /\ UNCHANGED <<piPowered, piReady, pendingCommand, hasPendingCommand, pin12,
                 connected, log, ev, pre, recv, framer, waiting, mqttInbox>>

Idle == waiting = "none"

IdleConnect ==
  /\ Idle
  /\ ~connected
  /\ Handled(publishStatus([Globals EXCEPT !.connected = TRUE],
                           <<"Arduino connected to MQTT">>),
             [kind |-> "connect", msg |-> <<>>])
  /\ UNCHANGED <<framer, transport>>

\* loop(): mqttClient.poll() delivers the oldest message held
PollInbox ==
  /\ Idle
  /\ connected
  /\ mqttInbox # <<>>
  /\ LET m == Head(mqttInbox)
     IN IF callsShutdownpi(Globals, m)
        THEN /\ Handled(shutdownpiSettle(Globals), [kind |-> "bus", msg |-> m])
             /\ waiting' = "shutdownpi"
             /\ late' = 0
        ELSE /\ \E nullCmp \in BOOLEAN :
                  Handled(onMqttMessage(Globals, m, nullCmp),
                          [kind |-> "bus", msg |-> m])
             /\ UNCHANGED <<waiting, late>>
  /\ mqttInbox' = Tail(mqttInbox)
  /\ UNCHANGED <<framer, serialRx>>

\* loop(): checkPiMessages() reads the oldest line held
ReadSerial ==
  /\ Idle
  /\ serialRx # <<>>
  /\ LET line == Head(serialRx)
     IN IF classify(trim(line)) = "ShutdownInitiated"
        THEN /\ Handled(onShutdownInitiatedSettle(Globals, trim(line)),
                        [kind |-> "line", msg |-> line])
             /\ waiting' = "SHUTDOWN_INITIATED"
             /\ late' = 0
        ELSE /\ Handled(processTextMessage(Globals, line),
                        [kind |-> "line", msg |-> line])
             /\ UNCHANGED <<waiting, late>>
  /\ serialRx' = Tail(serialRx)
  /\ UNCHANGED <<framer, mqttInbox>>

\* delay() returns and the handler runs to its end
EndWait ==
  /\ ~Idle
  /\ LET s0 == [Globals EXCEPT !.log = log]
         s == IF waiting = "shutdownpi" THEN shutdownpiPowerOff(s0)
              ELSE onShutdownInitiatedPowerOff(s0)
     IN /\ piPowered' = s.piPowered
        /\ piReady' = s.piReady
        /\ pendingCommand' = s.pendingCommand
        /\ hasPendingCommand' = s.hasPendingCommand
        /\ pin12' = s.pin12
        /\ log' = s.log
  /\ waiting' = "none"
  /\ UNCHANGED <<connected, ev, pre, recv, framer, mqttInbox, serialRx, late>>

NextWait ==
  IdleConnect \/ BusArrive \/ LineArrive \/ PollInbox \/ ReadSerial \/ EndWait

SpecWait == Init /\ [][NextWait]_vars /\ WF_vars(EndWait)

(***************************************************************************)
(* Vocabulary of the properties.                                           *)
(***************************************************************************)
Now == Core(Globals)

IsWrite(e) == e.op = "Serial1.print"

Writes == SelectSeq(log, IsWrite)

WriteTexts == [i \in 1..Len(Writes) |-> Writes[i].arg]

Wire(text) == text \o <<"\n">>

HasEffect(op, arg) ==
  \E i \in 1..Len(log) : log[i].op = op /\ log[i].arg = arg

EffectBefore(op1, arg1, op2, arg2) ==
  \E i, j \in 1..Len(log) :
    /\ i < j
    /\ log[i].op = op1 /\ log[i].arg = arg1
    /\ log[j].op = op2 /\ log[j].arg = arg2

IsAck301(e) == e.op = "publish" /\ e.arg = <<"301">>

Acks(l) == SelectSeq(l, IsAck301)

IsCommand(e, code) == e.kind = "bus" /\ CodeOf(e.msg) = code

IsDeviceEvent(e, event) == e.kind = "line" /\ classify(trim(e.msg)) = event

(***************************************************************************)
(* C1: between handlers, ready implies powered.                            *)
(***************************************************************************)
C1_ReadyImpliesPowered == piReady => piPowered

C1_Witness ==
  \/ piReady /\ piPowered /\ IsReadyLine(ev)
  \/ IsCommand(ev, 104) /\ pre.piReady /\ ~piReady /\ ~piPowered

(***************************************************************************)
(* C2: every write to the Pi's serial link is made while piReady is true.  *)
(***************************************************************************)
C2_WritesOnlyWhenReady ==
  \A i \in 1..Len(log) : IsWrite(log[i]) => log[i].piReady

C2_Witness ==
  /\ IsReadyLine(ev)
  /\ pre.hasPendingCommand
  /\ ~pre.piReady
  /\ Len(Writes) = 1

(***************************************************************************)
(* C3: the pending slot is last-write-wins: after command A arrived in OFF *)
(* and command B after it, both while the Pi was not ready, the next ready *)
(* line writes exactly one command to the Pi, and it is B.                 *)
(***************************************************************************)
C3_LastWriteWins ==
  (IsReadyLine(ev) /\ Len(recv) = 2 /\ recv[1].from = "OFF")
    => WriteTexts = <<Wire(recv[2].text)>>

C3_Witness ==
  /\ IsReadyLine(ev)
  /\ Len(recv) = 2
  /\ recv[1].from = "OFF"
  /\ recv[1].text # recv[2].text
  /\ WriteTexts = <<Wire(recv[2].text)>>

(***************************************************************************)
(* C4: in READY a command with code 104, legacy or structured, writes the  *)
(* shutdown code to the Pi, clears ready, waits 25 s, then clears powered  *)
(* and drives pin 12 high: the handler ends in OFF.                        *)
(***************************************************************************)
C4_Shutdown104 ==
  (IsCommand(ev, 104) /\ StateOf(pre) = "READY")
    => /\ Len(Writes) = 1
       /\ toInt(Writes[1].arg) = 104
       /\ EffectBefore("Serial1.print", Writes[1].arg, "delay", <<25000>>)
       /\ EffectBefore("delay", <<25000>>, "digitalWrite", <<"HIGH">>)
       /\ StateOf(Now) = "OFF"
       /\ pin12 = "HIGH"

(***************************************************************************)
(* C5: a command with code 102 that arrives while the Pi is powered only   *)
(* reports "already powered": globals and pin unchanged, nothing written   *)
(* to the Pi.                                                              *)
(***************************************************************************)
C5_PowerOnWhenPowered ==
  (IsCommand(ev, 102) /\ pre.piPowered)
    => /\ HasEffect("publish", <<"Pi is already powered on">>)
       /\ Now = pre
       /\ Writes = <<>>

(***************************************************************************)
(* C6: a command with code 102 in OFF ends in BOOTING with pin 12 low and  *)
(* "Pi Booting" reported, writes nothing to the Pi and leaves the pending  *)
(* slot alone.                                                             *)
(***************************************************************************)
C6_PowerOnFromOff ==
  (IsCommand(ev, 102) /\ StateOf(pre) = "OFF")
    => /\ StateOf(Now) = "BOOTING"
       /\ pin12 = "LOW"
       /\ HasEffect("digitalWrite", <<"LOW">>)
       /\ HasEffect("publish", <<"Pi Booting">>)
       /\ Writes = <<>>
       /\ pendingCommand = pre.pendingCommand
       /\ hasPendingCommand = pre.hasPendingCommand

C6_Witness ==
  /\ IsCommand(ev, 102)
  /\ ev.msg.fmt = "json"
  /\ StateOf(pre) = "OFF"
  /\ StateOf(Now) = "BOOTING"

(***************************************************************************)
(* C7: a command with code > 0 other than 101 and 102 that arrives while   *)
(* the Pi is not ready is not written to the Pi but stored in the pending  *)
(* slot; from OFF the same handler powers the Pi on and ends in BOOTING.   *)
(***************************************************************************)
C7_QueuedWhenNotReady ==
  (ev.kind = "bus" /\ Queueable(ev.msg) /\ ~pre.piReady)
    => /\ Writes = <<>>
       /\ hasPendingCommand
       /\ pendingCommand = TextOf(ev.msg)
       /\ (StateOf(pre) = "OFF"
             => /\ StateOf(Now) = "BOOTING"
                /\ pin12 = "LOW"
                /\ HasEffect("digitalWrite", <<"LOW">>))

C7_Witness ==
  /\ IsCommand(ev, 103)
  /\ ev.msg.fmt = "json"
  /\ StateOf(pre) = "OFF"
  /\ StateOf(Now) = "BOOTING"
  /\ hasPendingCommand

(***************************************************************************)
(* C8: a ready line ends in READY in any state; a pending command is       *)
(* written to the Pi exactly once by that handler and the slot is emptied, *)
(* and a ready line that finds the slot empty writes nothing.              *)
(***************************************************************************)
C8_ReadyDispatchesOnce ==
  IsReadyLine(ev)
    => /\ StateOf(Now) = "READY"
       /\ ~hasPendingCommand
       /\ pendingCommand = <<>>
       /\ (pre.hasPendingCommand => WriteTexts = <<Wire(pre.pendingCommand)>>)
       /\ (~pre.hasPendingCommand => Writes = <<>>)

C8_Witness ==
  /\ IsReadyLine(ev)
  /\ pre.hasPendingCommand
  /\ StateOf(pre) = "BOOTING"
  /\ Len(Writes) = 1
  /\ ~hasPendingCommand

(***************************************************************************)
(* C9: with the broker session up, every command with code 101 is answered *)
(* with exactly one "301", in every state and format, and a second 101     *)
(* right after it gets the identical answer.                               *)
(***************************************************************************)
C9_Reply101 ==
  [][IsCommand(ev', 101)
       => /\ Acks(log') = <<Eff(pre', "publish", <<"301">>)>>
          /\ (IsCommand(ev, 101) => Acks(log')[1].arg = Acks(log)[1].arg)]_vars

C9_Witness ==
  /\ IsCommand(ev, 101)
  /\ StateOf(pre) = "OFF"
  /\ Len(Acks(log)) = 1

(***************************************************************************)
(* C10: a 104_ACK line clears ready and leaves powered and pin 12 alone; a *)
(* SHUTDOWN_INITIATED line clears ready, waits 95 s, then clears powered   *)
(* and drives pin 12 high, ending in OFF.                                  *)
(***************************************************************************)
C10_ShutdownEvents ==
  /\ IsDeviceEvent(ev, "Ack104")
       => /\ ~piReady
          /\ piPowered = pre.piPowered
          /\ pin12 = pre.pin12
          /\ \A i \in 1..Len(log) : log[i].op # "digitalWrite"
  /\ IsDeviceEvent(ev, "ShutdownInitiated")
       => /\ StateOf(Now) = "OFF"
          /\ pin12 = "HIGH"
          /\ EffectBefore("delay", <<95000>>, "digitalWrite", <<"HIGH">>)

C10_Witness ==
  /\ IsDeviceEvent(ev, "ShutdownInitiated")
  /\ StateOf(pre) = "READY"
  /\ StateOf(Now) = "OFF"

(***************************************************************************)
(* C11: a line that is neither a ready line nor 104_ACK nor                *)
(* SHUTDOWN_INITIATED leaves the globals and pin 12 alone and writes       *)
(* nothing to the Pi; its only effect is one status report (none when the  *)
(* broker session is down), "Recording started: ..." for a recording line. *)
(***************************************************************************)
ReportOnlyEvents ==
  {"Ack103", "RecordingAck", "UploadResult", "UnknownCodeReported",
   "Unclassified"}

C11_OtherEventsOnlyReport ==
  (ev.kind = "line" /\ classify(trim(ev.msg)) \in ReportOnlyEvents)
    => /\ Now = pre
       /\ Len(log) = (IF connected THEN 1 ELSE 0)
       /\ \A i \in 1..Len(log) : log[i].op = "publish"
       /\ (connected /\ startsWith(trim(ev.msg), "105_NOAA15"))
            => log[1].arg = <<"Recording started: ">> \o trim(ev.msg)

C11_Witness ==
  /\ IsDeviceEvent(ev, "RecordingAck")
  /\ StateOf(pre) = "READY"
  /\ Len(log) = 1
  /\ log[1].arg = <<"Recording started: ", "105_NOAA15", " started">>

(***************************************************************************)
(* C12: a bus message that does not decode to a command (a legacy text     *)
(* that is not an integer or is not positive, a structured message that    *)
(* is malformed or has code <= 0) leaves the globals and pin 12 alone and  *)
(* writes nothing to the Pi.                                               *)
(***************************************************************************)
IsIntegerText(text) ==
  LET first == IF text # <<>> /\ text[1] \in {"-", "+"} THEN 2 ELSE 1
  IN /\ first <= Len(text)
     /\ \A i \in first..Len(text) : IsDigit(text[i])

DecodeFails(m) ==
  IF m.fmt = "json" THEN ~m.ok \/ m.code <= 0
  ELSE ~IsIntegerText(m.text) \/ toInt(m.text) <= 0

C12_NotACommandNoEffect ==
  (ev.kind = "bus" /\ DecodeFails(ev.msg)) => (Now = pre /\ Writes = <<>>)

(***************************************************************************)
(* C15: between handlers, pin 12 is low exactly when piPowered is true.    *)
(***************************************************************************)
C15_PinMatchesPowered == (pin12 = "LOW") <=> piPowered

(***************************************************************************)
(* C16: between handlers, a non-empty pending slot implies piPowered.      *)
(***************************************************************************)
C16_PendingImpliesPowered == hasPendingCommand => piPowered

(***************************************************************************)
(* C17: a command with code 101 has no effect but the acknowledgment:      *)
(* globals and pin 12 unchanged and nothing written to the Pi.             *)
(***************************************************************************)
C17_Reply101NoOtherEffect ==
  IsCommand(ev, 101) => (Now = pre /\ Writes = <<>>)

(***************************************************************************)
(* C19: between handlers, piReady implies that the pending slot is empty.  *)
(***************************************************************************)
C19_ReadyImpliesSlotEmpty ==
  piReady => (~hasPendingCommand /\ pendingCommand = <<>>)

C19_Witness ==
  /\ piReady
  /\ IsReadyLine(ev)
  /\ pre.hasPendingCommand
  /\ ~hasPendingCommand

(***************************************************************************)
(* C18: a status report of the gateway that the broker delivers back to it *)
(* is handled as not-a-command: globals and pin 12 unchanged and nothing   *)
(* written to the Pi.                                                      *)
(***************************************************************************)
C18_EchoIsNotACommand ==
  ev.kind = "echo" => (Now = pre /\ Writes = <<>>)

(***************************************************************************)
(* C13: a newline or carriage return that arrives while the buffer is      *)
(* empty emits no line: nothing is handed to processTextMessage, no status *)
(* is reported and no state changes.                                       *)
(***************************************************************************)
C13_TerminatorOnEmptyBuffer ==
  (ev.kind = "byte" /\ IsTerminator(ev.msg[1]) /\ ev.at = 0)
    => (ev.lines = <<>> /\ log = <<>> /\ Now = pre)

(***************************************************************************)
(* C14: of up to 200 printable bytes fed from an empty buffer without a    *)
(* terminator, none emits a line; the buffer is reset, with the overflow   *)
(* diagnostic, exactly at the 128th byte, and the buffer index stays       *)
(* within the 128-byte buffer.                                             *)
(***************************************************************************)
C14_OverflowAtByte128 ==
  /\ textBufferIndex \in 0..(BufferSize - 1)
  /\ Len(textBuffer) = textBufferIndex
  /\ (ev.kind = "byte" /\ IsAccepted(ev.msg[1]) /\ ~IsTerminator(ev.msg[1])
        /\ run \in 1..200)
       => /\ ev.lines = <<>>
          /\ HasEffect("Serial.println", <<"Text buffer overflow, resetting">>)
               <=> run = 128
          /\ textBufferIndex = 0 <=> run = 128
          /\ run < 128 => textBufferIndex = run
          /\ run > 128 => textBufferIndex = run - 128
          /\ Now = pre

C14_Witness ==
  /\ ev.kind = "byte"
  /\ ev.msg = <<120>>
  /\ run = 200
  /\ textBufferIndex = 72

(***************************************************************************)
(* C20: a settle wait always runs to completion and ends with piPowered    *)
(* false and pin 12 high; while it lasts no message is taken from either   *)
(* transport, nothing is written to the Pi, the Pi is not powered on and   *)
(* the pending slot does not change; each transport hands its messages     *)
(* over oldest first.                                                      *)
(***************************************************************************)
IsPrefix(p, q) == Len(p) <= Len(q) /\ SubSeq(q, 1, Len(p)) = p

WritesOf(l) == SelectSeq(l, IsWrite)

DuringWait ==
  ~Idle =>
    /\ ev' = ev
    /\ IsPrefix(mqttInbox, mqttInbox')
    /\ IsPrefix(serialRx, serialRx')
    /\ WritesOf(log') = WritesOf(log)
    /\ pendingCommand' = pendingCommand
    /\ hasPendingCommand' = hasPendingCommand
    /\ ~(piPowered' /\ ~piPowered)
    /\ ~(pin12' = "LOW" /\ pin12 = "HIGH")
    /\ (waiting' = "none" => (~piPowered' /\ ~piReady' /\ pin12' = "HIGH"))

OldestFirst ==
  /\ ~IsPrefix(mqttInbox, mqttInbox')
       => /\ mqttInbox' = Tail(mqttInbox)
          /\ ev'.kind = "bus"
          /\ ev'.msg = Head(mqttInbox)
  /\ ~IsPrefix(serialRx, serialRx')
       => /\ serialRx' = Tail(serialRx)
          /\ ev'.kind = "line"
          /\ ev'.msg = Head(serialRx)

C20_SettleWait ==
  /\ [][DuringWait /\ OldestFirst]_vars
  /\ (~Idle) ~> Idle

C20_Witness ==
  /\ ~Idle
  /\ late >= 2
  /\ mqttInbox # <<>>
  /\ serialRx # <<>>

====
